---- MODULE Spec2Model ----
(***************************************************************************)
(* State machine of the root component App (src/App.tsx): the React state  *)
(* cells chat, messages, isLoading and error, the one-time bootstrap       *)
(* effect, and the asynchronous handler handleSendMessage, one invocation  *)
(* record per call.  Every step is one task of the event loop: the code    *)
(* that runs between two awaits, with all the state updates it queues      *)
(* applied in order.                                                       *)
(***************************************************************************)
EXTENDS Integers, Sequences, FiniteSets, TLC

\* ---------------------------------------------------------------- bounds
MaxSubmits == 2      \* calls of handleSendMessage
MaxChunks == 2       \* chunks the streams deliver in all
MaxClock == 1        \* largest value Date.now() takes

\* texts the user submits and texts a chunk carries
Inputs == {"x"}
Fragments == {"a", "b"}

\* ------------------------------------------------------------- constants
NULL == "NULL"
ChatInstance == "chatInstance"
InitId == "init"
GreetingText == "Hello! How can I assist you today?"
BootstrapError == "Failed to initialize the chat service. Please check your API key."
StreamError == "An error occurred while getting a response. Please try again."
SorryText == "Sorry, I encountered an error."

VARIABLES
    chat,        \* useState<Chat | null>
    messages,    \* useState<Message[]>
    isLoading,   \* useState<boolean>
    error,       \* useState<string | null>
    boot,        \* position of the bootstrap effect: "pending", "ok", "failed"
    now,         \* the value Date.now() returns
    calls,       \* number of calls of handleSendMessage so far
    subs,        \* the invocations of handleSendMessage that passed the guard
    history      \* per invocation, the values its placeholder's text has taken

vars == <<chat, messages, isLoading, error, boot, now, calls, subs, history>>

\* ------------------------------------------------------------ id strings
\* Date.now().toString()
UserId(t) == ToString(t)

\* `model-${Date.now()}`
ModelId(t) == "model-" \o ToString(t)

\* the Message record type
Message(id, role, text) == [id |-> id, role |-> role, text |-> text]

Greeting == Message(InitId, "model", GreetingText)

\* { id: modelResponseId, role: 'model', text: '' }
Placeholder(modelResponseId) == Message(modelResponseId, "model", "")

\* the two queued updaters prev => [...prev, newUserMessage] and
\* prev => [...prev, placeholder], applied in order
AppendPairUserOnly(prevMessages, newUserMessage, placeholder) ==
    Append(prevMessages, newUserMessage)
AppendPairSwapped(prevMessages, newUserMessage, placeholder) ==
    Append(Append(prevMessages, placeholder), newUserMessage)
AppendPair(prevMessages, newUserMessage, placeholder) ==
    Append(Append(prevMessages, newUserMessage), placeholder)

\* prevMessages.map(msg => msg.id === id ? { ...msg, text } : msg)
MapTextAsModel(prevMessages, id, text) ==
    [k \in 1..Len(prevMessages) |->
        Message(prevMessages[k].id, "model",
                IF prevMessages[k].id = id THEN text ELSE prevMessages[k].text)]
MapText(prevMessages, id, text) ==
    [k \in 1..Len(prevMessages) |->
        IF prevMessages[k].id = id
        THEN [prevMessages[k] EXCEPT !.text = text]
        ELSE prevMessages[k]]

\* the values the map writes, as seen by each invocation's placeholder
\* record (the record at the position where the invocation appended it)
Observe(hist, id, text) ==
    [j \in 1..Len(subs) |->
        IF messages[subs[j].slot].id = id
        THEN Append(hist[j], text)
        ELSE hist[j]]

InFlight(i) == subs[i].pc \in {"request", "streaming"}

\* chunks delivered so far by all streams
RECURSIVE SumChunks(_)
SumChunks(n) == IF n = 0 THEN 0 ELSE Len(subs[n].chunks) + SumChunks(n - 1)
TotalChunks == SumChunks(Len(subs))

Init ==
    /\ chat = NULL
    /\ messages = <<>>
    /\ isLoading = FALSE
    /\ error = NULL
    /\ boot = "pending"
    /\ now = 0
    /\ calls = 0
    /\ subs = <<>>
    /\ history = <<>>

\* ------------------------------------------------------------- bootstrap
\* startChat() returns: setChat(chatInstance); setMessages([greeting])
BootstrapOk ==
    /\ boot = "pending"
    /\ boot' = "ok"
    /\ chat' = ChatInstance
    /\ messages' = <<Greeting>>
    /\ UNCHANGED <<isLoading, error, now, calls, subs, history>>

\* startChat() throws: console.error(e); setError(...)
BootstrapThrowsAfterGreeting ==
    /\ boot = "pending"
    /\ boot' = "failed"
    /\ messages' = <<Greeting>>
    /\ error' = BootstrapError
    /\ UNCHANGED <<chat, isLoading, now, calls, subs, history>>
BootstrapThrows ==
    /\ boot = "pending"
    /\ boot' = "failed"
    /\ error' = BootstrapError
    /\ UNCHANGED <<chat, messages, isLoading, now, calls, subs, history>>

\* ----------------------------------------------------- handleSendMessage
\* the handler past its guard, up to the first await.  t is the value the
\* first Date.now() returns (the clock never runs backwards) and d the time
\* that passes until the second one.
Send(userMessage, t, d) ==
    LET newUserMessage == Message(UserId(t), "user", userMessage)
        modelResponseId == ModelId(t + d)
    IN /\ isLoading' = TRUE
       /\ error' = NULL
       /\ messages' = AppendPair(messages, newUserMessage, Placeholder(modelResponseId))
       /\ now' = t + d
       /\ subs' = Append(subs,
                    [userMessage |-> userMessage,
                     modelResponseId |-> modelResponseId,
                     fullResponse |-> "",
                     chunks |-> <<>>,
                     slot |-> Len(messages) + 2,
                     alone |-> \A j \in 1..Len(subs) : ~InFlight(j),
                     pc |-> "request"])
       /\ history' = Append(history, <<"">>)
       /\ UNCHANGED <<chat, boot>>

\* one call of the handler: if (!chat) return; otherwise the code above
handleSendMessageUnguarded(userMessage, t, d) ==
    /\ calls < MaxSubmits
    /\ now <= t
    /\ t + d <= MaxClock
    /\ calls' = calls + 1
    /\ Send(userMessage, t, d)
handleSendMessage(userMessage, t, d) ==
    /\ calls < MaxSubmits
    /\ now <= t
    /\ t + d <= MaxClock
    /\ calls' = calls + 1
    /\ IF chat = NULL
       THEN UNCHANGED <<chat, messages, isLoading, error, boot, now, subs, history>>
       ELSE Send(userMessage, t, d)

\* await chat.sendMessageStream(...) resolves: the for-await loop starts
StreamOpens(i) ==
    /\ subs[i].pc = "request"
    /\ subs' = [subs EXCEPT ![i].pc = "streaming"]
    /\ UNCHANGED <<chat, messages, isLoading, error, boot, now, calls, history>>

\* one iteration of the for-await loop
StreamChunk(i, text) ==
    /\ subs[i].pc = "streaming"
    /\ TotalChunks < MaxChunks
    /\ LET fullResponse == subs[i].fullResponse \o text
       IN /\ subs' = [subs EXCEPT ![i].fullResponse = fullResponse,
                                  ![i].chunks = Append(@, text)]
          /\ messages' = MapText(messages, subs[i].modelResponseId, fullResponse)
          /\ history' = Observe(history, subs[i].modelResponseId, fullResponse)
    /\ UNCHANGED <<chat, isLoading, error, boot, now, calls>>

\* the stream ends: the loop exits and the finally block runs
StreamEndsKeepsLoading(i) ==
    /\ subs[i].pc = "streaming"
    /\ subs' = [subs EXCEPT ![i].pc = "finalized"]
    /\ UNCHANGED <<chat, messages, isLoading, error, boot, now, calls, history>>
StreamEnds(i) ==
    /\ subs[i].pc = "streaming"
    /\ subs' = [subs EXCEPT ![i].pc = "finalized"]
    /\ isLoading' = FALSE
    /\ UNCHANGED <<chat, messages, error, boot, now, calls, history>>

\* the request or the stream raises: the catch block, then the finally block
StreamRaisesKeepsPartial(i) ==
    /\ InFlight(i)
    /\ subs' = [subs EXCEPT ![i].pc = "failed"]
    /\ error' = StreamError
    /\ isLoading' = FALSE
    /\ UNCHANGED <<chat, messages, boot, now, calls, history>>
StreamRaises(i) ==
    /\ InFlight(i)
    /\ subs' = [subs EXCEPT ![i].pc = "failed"]
    /\ error' = StreamError
    /\ messages' = MapText(messages, subs[i].modelResponseId, SorryText)
    /\ history' = Observe(history, subs[i].modelResponseId, SorryText)
    /\ isLoading' = FALSE
    /\ UNCHANGED <<chat, boot, now, calls>>

Next ==
    \/ BootstrapOk
    \/ BootstrapThrows
    \/ \E userMessage \in Inputs, t \in 0..MaxClock, d \in {0, 1} :
          handleSendMessage(userMessage, t, d)
    \/ \E i \in 1..Len(subs) : StreamOpens(i)
    \/ \E i \in 1..Len(subs), text \in Fragments : StreamChunk(i, text)
    \/ \E i \in 1..Len(subs) : StreamEnds(i)
    \/ \E i \in 1..Len(subs) : StreamRaises(i)

Spec == Init /\ [][Next]_vars

\* the continuation of invocation i after a promise it awaits has settled:
\* the request resolves, the stream ends, or either raises
Settle(i) ==
    /\ i \in 1..Len(subs)
    /\ (StreamOpens(i) \/ StreamEnds(i) \/ StreamRaises(i))

\* every stream yields finitely many chunks and then ends or raises, and the
\* event loop runs the continuation of every settled promise
FairSpec == Spec /\ \A i \in 1..MaxSubmits : WF_vars(Settle(i))

\* ===================================================== checked properties
Subs == 1..Len(subs)

\* the record an invocation appended as its placeholder
PlaceholderOf(i) == messages[subs[i].slot]

RECURSIVE Concat(_)
Concat(seq) == IF seq = <<>> THEN "" ELSE Head(seq) \o Concat(Tail(seq))

\* "", f1, f1+f2, ..., f1+...+fk
Snapshots(chunks) == [k \in 1..(Len(chunks) + 1) |-> Concat(SubSeq(chunks, 1, k - 1))]

IdRoles(msgs) == [k \in 1..Len(msgs) |-> <<msgs[k].id, msgs[k].role>>]

IsPrefix(s, t) == Len(s) <= Len(t) /\ \A k \in 1..Len(s) : s[k] = t[k]

\* every invocation so far started with no other one in flight and finalized
SequentialSuccess ==
    /\ boot = "ok"
    /\ \A i \in Subs : subs[i].alone /\ subs[i].pc = "finalized"

\* C1: after a successful bootstrap and N submissions that ran to successful
\* completion one after another, the store holds 1 + 2*N records: the
\* greeting, then per submission, in order, a user record with the submitted
\* text immediately followed by a model record.
C1_StoreShape ==
    SequentialSuccess =>
        /\ Len(messages) = 1 + 2 * Len(subs)
        /\ messages[1].id = InitId /\ messages[1].role = "model"
        /\ \A i \in Subs :
              /\ messages[2 * i].role = "user"
              /\ messages[2 * i].text = subs[i].userMessage
              /\ messages[2 * i + 1].role = "model"

C1_Witness ==
    /\ SequentialSuccess
    /\ Len(subs) = 2
    /\ \A i \in Subs : Len(subs[i].chunks) = 1
    /\ Len(messages) = 5
    /\ messages[3].text # "" /\ messages[5].text # ""

\* C2: all records of the store have pairwise distinct ids.
C2_UniqueIds ==
    \A k, l \in 1..Len(messages) : messages[k].id = messages[l].id => k = l

\* C3: for an invocation whose stream has yielded f1..fk without raising, the
\* text of its placeholder has taken exactly the values "", f1, f1+f2, ...,
\* f1+...+fk, in that order.
C3_SnapshotSequence ==
    \A i \in Subs :
        subs[i].pc # "failed" => history[i] = Snapshots(subs[i].chunks)

\* C4: the step in which an invocation's request or stream raises leaves its
\* placeholder with exactly the fixed error text, the error flag non-null and
\* the loading flag false.
C4_FailureOverwrite ==
    [][\A i \in Subs :
          (subs[i].pc # "failed" /\ subs'[i].pc = "failed") =>
              /\ messages'[subs[i].slot].text = SorryText
              /\ error' # NULL
              /\ isLoading' = FALSE]_vars

C4_Witness ==
    \E i \in Subs :
        /\ subs[i].pc = "failed"
        /\ Len(subs[i].chunks) >= 1
        /\ PlaceholderOf(i).text = SorryText
        /\ error = StreamError
        /\ ~isLoading

\* C5: once session creation has thrown, the store is empty, the handle is
\* unset and the error flag is the bootstrap-failure message, for good.
C5_BootstrapFailure ==
    boot = "failed" =>
        /\ messages = <<>>
        /\ chat = NULL
        /\ error = BootstrapError

C5_Witness ==
    /\ boot = "failed"
    /\ calls = MaxSubmits
    /\ error = BootstrapError

\* C6: a call of the handler while no handle exists changes neither the
\* store, the flags nor the handle, and starts no request.
C6_NoHandleNoOp ==
    [][(chat = NULL /\ calls' = calls + 1) =>
          UNCHANGED <<messages, isLoading, error, chat, subs>>]_vars

C6_Witness ==
    /\ calls >= 1
    /\ chat = NULL
    /\ subs = <<>>
    /\ messages = <<>>

\* a model record is pending while an invocation still in flight writes to
\* it: the maps of lines 80-82 and 89-91 rewrite every record that carries
\* the invocation's modelResponseId
Pending(k) ==
    /\ messages[k].role = "model"
    /\ \E i \in Subs : InFlight(i) /\ messages[k].id = subs[i].modelResponseId

PendingCount == Cardinality({k \in 1..Len(messages) : Pending(k)})

InFlightCount == Cardinality({i \in Subs : InFlight(i)})

\* C7: while a submission is receiving its reply exactly one model record is
\* pending, and no record is pending otherwise: never more than one, and
\* every other record is terminal (no invocation writes to it any more).
C7_OnePending == PendingCount = (IF InFlightCount >= 1 THEN 1 ELSE 0)

\* C8: once an invocation has finalized, the text of its placeholder never
\* changes again.
C8_FinalizedFrozen ==
    [][\A i \in Subs :
          subs[i].pc = "finalized" =>
              messages'[subs[i].slot].text = messages[subs[i].slot].text]_vars

\* invocation i applies a chunk or its failure overwrite in this step
Writes(i) ==
    \/ subs'[i].chunks # subs[i].chunks
    \/ subs[i].pc # "failed" /\ subs'[i].pc = "failed"

\* C9: a chunk update or failure overwrite of an invocation changes only the
\* text of its own placeholder: every other record, and the length and order
\* of the store, stay as they are.
C9_OnlyOwnPlaceholder ==
    [][\A i \in Subs :
          Writes(i) =>
              /\ Len(messages') = Len(messages)
              /\ IdRoles(messages') = IdRoles(messages)
              /\ \A k \in 1..Len(messages) :
                    k # subs[i].slot => messages'[k] = messages[k]]_vars

\* C10: the sequence of (id, role) pairs of the store before a step is a
\* prefix of the one after it.
C10_AppendOnly == [][IsPrefix(IdRoles(messages), IdRoles(messages'))]_vars

C10_Witness ==
    /\ Len(messages) = 5
    /\ \E i \in Subs : subs[i].pc = "failed"
    /\ \E i \in Subs : Len(subs[i].chunks) >= 1

\* invocation i had failed when invocation j was started: j came later and
\* started with no other invocation in flight
FailedBefore(i, j) == i < j /\ subs'[i].pc = "failed" /\ subs'[j].alone

\* C11: a submission made after another one has failed sets the loading flag
\* and clears the error flag when it starts and appends its user record and
\* its placeholder; when its stream ends without raising, its placeholder
\* holds the concatenation of its fragments, the loading flag is false, the
\* error flag is null and the failed submission's record still shows the
\* fixed error text.
C11_UsableAfterFailure ==
    [][\A j \in 1..Len(subs') : \A i \in 1..Len(subs') :
          FailedBefore(i, j) =>
              /\ Len(subs) = j - 1 =>
                    /\ isLoading' /\ error' = NULL
                    /\ Len(messages') = Len(messages) + 2
                    /\ messages'[Len(messages) + 1].role = "user"
                    /\ messages'[Len(messages) + 1].text = subs'[j].userMessage
                    /\ messages'[Len(messages) + 2].role = "model"
                    /\ messages'[Len(messages) + 2].text = ""
                    /\ messages'[subs[i].slot].text = SorryText
              /\ (Len(subs) >= j /\ subs[j].pc = "streaming"
                     /\ subs'[j].pc = "finalized") =>
                    /\ messages'[subs[j].slot].text = Concat(subs[j].chunks)
                    /\ ~isLoading' /\ error' = NULL
                    /\ messages'[subs[i].slot].text = SorryText]_vars

Ended(i) == i \in Subs /\ subs[i].pc \in {"finalized", "failed"}

\* C12: every submission that passed the guard eventually is finalized or
\* failed (an invocation, once started, stays in subs, so "always eventually
\* started implies ended" says that each started one ends), and the step that
\* ends it is one of these two, leaves the loading flag false and, on failure,
\* has set the error flag and the fixed text.
C12_EverySubmissionEnds ==
    /\ \A i \in 1..MaxSubmits : []<>(i \in Subs => Ended(i))
    /\ [][\A i \in Subs :
             (InFlight(i) /\ subs'[i].pc # subs[i].pc /\ subs'[i].pc # "streaming") =>
                 /\ subs'[i].pc \in {"finalized", "failed"}
                 /\ ~isLoading'
                 /\ subs'[i].pc = "failed" =>
                       error' # NULL /\ messages'[subs[i].slot].text = SorryText]_vars

C12_Witness ==
    /\ Len(subs) = 2
    /\ subs[1].pc = "finalized" /\ Len(subs[1].chunks) >= 1
    /\ subs[2].pc = "failed"
    /\ ~isLoading

\* C13: the loading flag is true in every state in which at least one
\* submission is still in flight, overlapping submissions included.
C13_LoadingWhileInFlight == (\E i \in Subs : InFlight(i)) => isLoading

\* C14: while two submissions are both in flight, a chunk or failure of one
\* leaves the other's placeholder as it is, and the one that ends leaves its
\* own placeholder with the concatenation of its own fragments, or with the
\* fixed error text if its stream raised.
C14_OverlapIsolated ==
    [][\A i \in Subs : \A j \in Subs :
          (i # j /\ InFlight(i) /\ InFlight(j)) =>
              /\ Writes(i) => messages'[subs[j].slot] = messages[subs[j].slot]
              /\ subs'[i].pc = "finalized" =>
                    messages'[subs[i].slot].text = Concat(subs'[i].chunks)
              /\ subs'[i].pc = "failed" =>
                    messages'[subs[i].slot].text = SorryText]_vars

\* what the TypingIndicator is rendered on:
\* isLoading && messages[messages.length - 1]?.role === 'user'
TypingIndicatorShown ==
    isLoading /\ messages # <<>> /\ messages[Len(messages)].role = "user"

\* C15: the store is empty or ends with a model record, every user record is
\* immediately followed by the placeholder that the same submission created,
\* and the typing-indicator condition holds in no state.
C15_UserThenPlaceholder ==
    /\ messages = <<>> \/ messages[Len(messages)].role = "model"
    /\ \A k \in 1..Len(messages) :
          messages[k].role = "user" =>
              /\ k < Len(messages)
              /\ messages[k + 1].role = "model"
              /\ \E i \in Subs :
                    /\ subs[i].slot = k + 1
                    /\ messages[k].text = subs[i].userMessage
                    /\ messages[k + 1].id = subs[i].modelResponseId
    /\ ~TypingIndicatorShown

C15_Witness ==
    /\ isLoading
    /\ Len(subs) = 2
    /\ InFlight(1) /\ InFlight(2)
    /\ Len(subs[1].chunks) >= 1
    /\ Len(messages) = 5
    /\ messages[2].role = "user" /\ messages[4].role = "user"
====
